---- MODULE Spec2Model ----
(***************************************************************************)
(* College Event Management API (src/main.py, src/schemas.py).             *)
(*                                                                         *)
(* Python values are tagged pairs [t, v]: t is the Python type and v the   *)
(* text that identifies the value.  Dictionaries (request bodies, stored   *)
(* documents, filters, API records) are functions from key names to such   *)
(* values.  The storage layer (module `database`, imported at main.py:9)   *)
(* is modelled from its contract: insert-one with a generated identifier,  *)
(* find-many by equality filter in insertion order.                        *)
(***************************************************************************)
EXTENDS Naturals, Sequences, FiniteSets, TLC

VARIABLES
    db,      \* "up" | "none": the gateway handle `db` imported at main.py:9
    coll,    \* the "event" collection: sequence of stored documents
    last,    \* the last request handled one-at-a-time and its response
    pc,      \* per concurrent List request: position in the handler
    seen,    \* per concurrent List request: the count read at main.py:121
    idx,     \* per concurrent List request: next SAMPLE_EVENTS index
    req,     \* per concurrent List request: its query parameters
    resp,    \* per concurrent List request: its response
    sx,      \* serialize_event study: the input record
    sy,      \* serialize_event study: serialize_event(sx)
    sz,      \* serialize_event study: serialize_event(serialize_event(sx))
    spc      \* serialize_event study: how many applications were made

vars == <<db, coll, last, pc, seen, idx, req, resp, sx, sy, sz, spc>>

(***************************************************************************)
(* Bounds of the model.                                                    *)
(***************************************************************************)
MaxCreates == 2    \* successful Create calls in one behaviour
NProc == 2         \* concurrent List requests

Procs == 1..NProc

(***************************************************************************)
(* Python values.                                                          *)
(***************************************************************************)
V(t, v) == [t |-> t, v |-> v]

None == V("none", "None")
Str(s) == V("str", s)
PyTrue == V("bool", "True")
PyFalse == V("bool", "False")
Date(s) == V("date", s)
DateTime(s) == V("datetime", s)
Oid(n) == V("oid", ToString(n))
Int(s) == V("int", s)
List(s) == V("list", s)
EmptyList == List("")

\* Calendar dates the model knows, in ISO-8601 form.
IsoDates == {"2025-05-01", "2025-05-28", "2025-05-30"}

\* str(x): a datetime prints with a space where isoformat() puts a "T".
PyStr(x) ==
    IF x.t = "datetime" /\ x.v = "2025-05-01T09:30:00"
    THEN Str("2025-05-01 09:30:00")
    ELSE Str(x.v)

\* hasattr(x, "isoformat")
HasIsoformat(x) == x.t \in {"date", "datetime"}

\* x.isoformat()
IsoFormat(x) == Str(x.v)

\* Python truthiness of an Optional[str] / Optional[bool] parameter.
Truthy(x) ==
    /\ x.t # "none"
    /\ ~(x.t = "str" /\ x.v = "")
    /\ ~(x.t = "bool" /\ x.v = "False")
    /\ ~(x.t = "list" /\ x.v = "")

(***************************************************************************)
(* Dictionaries.                                                           *)
(***************************************************************************)
EmptyDict == [k \in {} |-> None]
Has(d, k) == k \in DOMAIN d
Put(d, k, v) == [x \in (DOMAIN d) \cup {k} |-> IF x = k THEN v ELSE d[x]]
Del(d, k) == [x \in (DOMAIN d) \ {k} |-> d[x]]

(***************************************************************************)
(* Request validation: the pydantic models EventCreate and Event.          *)
(***************************************************************************)
RequiredText == {"title", "description", "event_time", "location", "category"}
ModelFields == RequiredText \cup {"event_date", "cover_image", "tags", "is_featured"}

\* Field f of the model against mapping m, with min_length=1 on the text
\* fields (a constraint neither model declares).
FieldOkNonEmpty(f, m) ==
    IF f \in RequiredText THEN Has(m, f) /\ m[f].t = "str" /\ m[f].v # ""
    ELSE IF f = "event_date"
    THEN Has(m, f) /\ (m[f].t = "date" \/ (m[f].t = "str" /\ m[f].v \in IsoDates))
    ELSE IF f = "cover_image" THEN ~Has(m, f) \/ m[f].t \in {"none", "str"}
    ELSE IF f = "tags" THEN ~Has(m, f) \/ m[f].t = "list"
    ELSE ~Has(m, f) \/ m[f].t = "bool"

\* Field f of the model against mapping m: TRUE iff pydantic accepts it.
\* `str` fields take text only, `date` takes a date or an ISO-8601 string,
\* a field with a default may be absent.
FieldOk(f, m) ==
    IF f \in RequiredText THEN Has(m, f) /\ m[f].t = "str"
    ELSE IF f = "event_date"
    THEN Has(m, f) /\ (m[f].t = "date" \/ (m[f].t = "str" /\ m[f].v \in IsoDates))
    ELSE IF f = "cover_image" THEN ~Has(m, f) \/ m[f].t \in {"none", "str"}
    ELSE IF f = "tags" THEN ~Has(m, f) \/ m[f].t = "list"
    ELSE ~Has(m, f) \/ m[f].t = "bool"

\* The fields pydantic reports when building EventCreate from a request body.
EventCreateErrors(body) == {f \in ModelFields : ~FieldOk(f, body)}

\* The fields pydantic reports when building schemas.Event from a dump.
EventErrors(m) == {f \in ModelFields : ~FieldOk(f, m)}

\* EventCreate(**body).model_dump(): all nine fields, defaults applied, the
\* date parsed; keys that are no field of the model are dropped.
ModelDump(body) ==
    [f \in ModelFields |->
        IF f = "event_date" THEN Date(body[f].v)
        ELSE IF f = "cover_image" THEN (IF Has(body, f) THEN body[f] ELSE None)
        ELSE IF f = "tags" THEN (IF Has(body, f) THEN body[f] ELSE EmptyList)
        ELSE IF f = "is_featured" THEN (IF Has(body, f) THEN body[f] ELSE PyFalse)
        ELSE body[f]]

(***************************************************************************)
(* SAMPLE_EVENTS.                                                          *)
(***************************************************************************)
Today == "2025-05-30"

\* date.today().replace(day=min(28, date.today().day))
ClampDay28(d) == IF d = "2025-05-30" THEN "2025-05-28" ELSE d

SAMPLE_EVENTS == <<
    [title |-> Str("Tech Symposium 2025"),
     description |-> Str("A showcase of cutting-edge projects, keynote talks, and hackathon finals."),
     event_date |-> Date(ClampDay28(Today)),
     event_time |-> Str("10:00 AM"),
     location |-> Str("Main Auditorium"),
     category |-> Str("Tech"),
     cover_image |-> Str("https://images.unsplash.com/photo-1551836022-d5d88e9218df"),
     tags |-> List("ai,robotics,talks"),
     is_featured |-> PyTrue],
    [title |-> Str("Cultural Night Fiesta"),
     description |-> Str("An evening of performances, fashion show, and food stalls."),
     event_date |-> Date(Today),
     event_time |-> Str("06:30 PM"),
     location |-> Str("Open Air Theatre"),
     category |-> Str("Cultural"),
     cover_image |-> Str("https://images.unsplash.com/photo-1515165562835-c3b8c0b1a3b0"),
     tags |-> List("dance,music,food"),
     is_featured |-> PyTrue],
    [title |-> Str("Data Science Workshop"),
     description |-> Str("Hands-on bootcamp on Python, pandas, and ML pipelines."),
     event_date |-> Date(Today),
     event_time |-> Str("02:00 PM"),
     location |-> Str("Lab Complex - 204"),
     category |-> Str("Workshop"),
     cover_image |-> Str("https://images.unsplash.com/photo-1555949963-aa79dcee981d"),
     tags |-> List("python,ml,workshop"),
     is_featured |-> PyFalse] >>

NSamples == Len(SAMPLE_EVENTS)

(***************************************************************************)
(* The storage gateway (module `database`).                                *)
(***************************************************************************)
\* The identifier the gateway generates for the next insert into c.
NewId(c) == Oid(Len(c) + 1)

\* create_document("event", rec): the collection after the insert.
create_document(c, rec) == Append(c, Put(rec, "_id", NewId(c)))

\* Whether stored document d satisfies the equality filter filt.
Matches(d, filt) == \A k \in DOMAIN filt : Has(d, k) /\ d[k] = filt[k]

\* get_documents("event", filt): the matching documents in stored order.
get_documents(c, filt) == SelectSeq(c, LAMBDA d : Matches(d, filt))

\* db["event"].count_documents({})
count_documents(c) == Len(c)


(***************************************************************************)
(* serialize_event (main.py:130-146).                                      *)
(***************************************************************************)
\* out[ts] = out[ts].isoformat() when the value has isoformat
ConvertTs(out, ts) ==
    IF Has(out, ts) /\ HasIsoformat(out[ts])
    THEN Put(out, ts, IsoFormat(out[ts]))
    ELSE out

\* The identifier step with the raw key left in place.
RenameIdKeepRaw(out) ==
    IF Has(out, "_id") THEN Put(out, "id", PyStr(out["_id"])) ELSE out

\* out["id"] = str(out.pop("_id"))
RenameId(out) ==
    IF Has(out, "_id") THEN Put(Del(out, "_id"), "id", PyStr(out["_id"])) ELSE out

serialize_event(d) ==
    LET o1 == RenameId(d)
        o2 == IF Has(o1, "event_date")
              THEN Put(o1, "date",
                       IF HasIsoformat(o1["event_date"])
                       THEN IsoFormat(o1["event_date"])
                       ELSE PyStr(o1["event_date"]))
              ELSE o1
        o3 == IF Has(o2, "event_time") THEN Put(o2, "time", o2["event_time"]) ELSE o2
        o4 == ConvertTs(o3, "created_at")
    IN  ConvertTs(o4, "updated_at")

SerializeAll(docs) == [i \in 1..Len(docs) |-> serialize_event(docs[i])]

(***************************************************************************)
(* ensure_seed (main.py:117-127).                                          *)
(***************************************************************************)
\* One turn of the loop with the first sample written every time.
seed_step_first(c, i) == create_document(c, SAMPLE_EVENTS[1])

\* One turn of `for ev in SAMPLE_EVENTS: create_document("event", ev)`.
seed_step(c, i) == create_document(c, SAMPLE_EVENTS[i])

\* The loop from sample i on; the insert of sample failAt raises.
RECURSIVE SeedFrom(_, _, _)
SeedFrom(c, i, failAt) ==
    IF i > NSamples \/ i = failAt THEN c
    ELSE SeedFrom(seed_step(c, i), i + 1, failAt)

\* Outcomes of the gateway during seeding: 0 = count_documents raises,
\* k in 1..NSamples = the k-th insert raises, NSamples + 1 = nothing raises.
FailPoints == 0..(NSamples + 1)

\* ensure_seed with the emptiness test left out.
ensure_seed_always(c, dbs, failAt) ==
    IF dbs = "none" THEN [coll |-> c, raised |-> FALSE, failed |-> FALSE]
    ELSE IF failAt = 0 THEN [coll |-> c, raised |-> FALSE, failed |-> TRUE]
    ELSE [coll |-> SeedFrom(c, 1, failAt), raised |-> FALSE,
          failed |-> failAt <= NSamples]

\* ensure_seed without the try/except: a failure leaves the function.
ensure_seed_raising(c, dbs, failAt) ==
    IF dbs = "none" THEN [coll |-> c, raised |-> FALSE, failed |-> FALSE]
    ELSE IF failAt = 0 THEN [coll |-> c, raised |-> TRUE, failed |-> TRUE]
    ELSE IF count_documents(c) = 0
    THEN [coll |-> SeedFrom(c, 1, failAt), raised |-> failAt <= NSamples,
          failed |-> failAt <= NSamples]
    ELSE [coll |-> c, raised |-> FALSE, failed |-> FALSE]

\* coll: the collection afterwards; failed: a gateway call raised inside;
\* raised: an exception left ensure_seed.
ensure_seed(c, dbs, failAt) ==
    IF dbs = "none" THEN [coll |-> c, raised |-> FALSE, failed |-> FALSE]
    ELSE IF failAt = 0 THEN [coll |-> c, raised |-> FALSE, failed |-> TRUE]
    ELSE IF count_documents(c) = 0
    THEN [coll |-> SeedFrom(c, 1, failAt), raised |-> FALSE,
          failed |-> failAt <= NSamples]
    ELSE [coll |-> c, raised |-> FALSE, failed |-> FALSE]

(***************************************************************************)
(* list_events (main.py:149-161).                                          *)
(***************************************************************************)
\* The filter with `if featured:` in place of `if featured is not None:`.
BuildFilterTruthyFeatured(category, featured) ==
    LET f1 == IF Truthy(category) THEN Put(EmptyDict, "category", category)
              ELSE EmptyDict
    IN  IF Truthy(featured) THEN Put(f1, "is_featured", featured) ELSE f1

\* The filter with `if category is not None:` in place of `if category:`.
BuildFilterCategoryNotNone(category, featured) ==
    LET f1 == IF category # None THEN Put(EmptyDict, "category", category)
              ELSE EmptyDict
    IN  IF featured # None THEN Put(f1, "is_featured", featured) ELSE f1

\* filt = {}; if category: ...; if featured is not None: ...
BuildFilter(category, featured) ==
    LET f1 == IF Truthy(category) THEN Put(EmptyDict, "category", category)
              ELSE EmptyDict
    IN  IF featured # None THEN Put(f1, "is_featured", featured) ELSE f1

\* The handler: c the collection, dbs the gateway handle, failAt the
\* gateway's outcome during seeding, qFail whether get_documents raises.
list_events(c, dbs, category, featured, failAt, qFail) ==
    LET seed == ensure_seed(c, dbs, failAt)
        filt == BuildFilter(category, featured)
    IN  IF seed.raised
        THEN [coll |-> seed.coll, status |-> 500, filt |-> EmptyDict,
              events |-> <<>>, seedFailed |-> seed.failed]
        ELSE IF qFail \/ dbs = "none"
        THEN [coll |-> seed.coll, status |-> 500, filt |-> filt,
              events |-> <<>>, seedFailed |-> seed.failed]
        ELSE [coll |-> seed.coll, status |-> 200, filt |-> filt,
              events |-> SerializeAll(get_documents(seed.coll, filt)),
              seedFailed |-> seed.failed]

(***************************************************************************)
(* create_event (main.py:164-172), behind FastAPI's body validation.       *)
(***************************************************************************)
\* Whether the collection already holds a document with the fields of rec.
Stored(c, rec) == \E i \in 1..Len(c) : Del(c[i], "_id") = rec

\* The handler with a duplicate check before the insert.
create_event_dedup(c, dbs, body, gwFail) ==
    LET errs == EventCreateErrors(body) IN
    IF errs # {}
    THEN [coll |-> c, status |-> 422, id |-> None, errs |-> errs]
    ELSE IF EventErrors(ModelDump(body)) # {}
    THEN [coll |-> c, status |-> 400, id |-> None,
          errs |-> EventErrors(ModelDump(body))]
    ELSE IF gwFail \/ dbs = "none" \/ Stored(c, ModelDump(body))
    THEN [coll |-> c, status |-> 400, id |-> None, errs |-> {}]
    ELSE [coll |-> create_document(c, ModelDump(body)), status |-> 201,
          id |-> PyStr(NewId(c)), errs |-> {}]

\* FastAPI builds `event: EventCreate` from the body before it calls the
\* handler and answers 422 itself when that fails.  In the handler every
\* exception, from Event(**dump) or from create_document, becomes a 400.
create_event(c, dbs, body, gwFail) ==
    LET errs == EventCreateErrors(body) IN
    IF errs # {}
    THEN [coll |-> c, status |-> 422, id |-> None, errs |-> errs]
    ELSE IF EventErrors(ModelDump(body)) # {}
    THEN [coll |-> c, status |-> 400, id |-> None,
          errs |-> EventErrors(ModelDump(body))]
    ELSE IF gwFail \/ dbs = "none"
    THEN [coll |-> c, status |-> 400, id |-> None, errs |-> {}]
    ELSE [coll |-> create_document(c, ModelDump(body)), status |-> 201,
          id |-> PyStr(NewId(c)), errs |-> {}]


(***************************************************************************)
(* Inputs.                                                                 *)
(***************************************************************************)
\* The POST body of the end-to-end scenario.
BaseBody ==
    [title |-> Str("X"), description |-> Str("Y"),
     event_date |-> Str("2025-05-01"), event_time |-> Str("5 PM"),
     location |-> Str("Hall A"), category |-> Str("Tech")]

FullBody ==
    [title |-> Str("X"), description |-> Str("Y"),
     event_date |-> Str("2025-05-01"), event_time |-> Str("5 PM"),
     location |-> Str("Hall A"), category |-> Str("Sports"),
     cover_image |-> Str("https://example.org/x.png"),
     tags |-> List("a,b"), is_featured |-> PyTrue]

RequiredFields == RequiredText \cup {"event_date"}

Bodies ==
    {BaseBody, FullBody,
     Put(BaseBody, "title", Str("")),
     Put(BaseBody, "category", Str("")),
     Put(Put(BaseBody, "description", Str("")), "location", Str(""))}
    \cup {Del(BaseBody, f) : f \in RequiredFields}
    \cup {Put(BaseBody, "event_date", Str("not-a-date")),
          Put(BaseBody, "title", Int("7")),
          Put(BaseBody, "is_featured", List("a,b"))}

Categories == {None, Str(""), Str("Tech")}
Featureds == {None, PyTrue, PyFalse}

SampleSet == {SAMPLE_EVENTS[i] : i \in 1..NSamples}
IsSample(d) == Del(d, "_id") \in SampleSet
NumCreated(c) == Cardinality({i \in 1..Len(c) : ~IsSample(c[i])})

\* Record shapes the gateway can hand to serialize_event.
SerInputs ==
    {[k \in ks |->
        IF k = "_id" THEN Oid(7)
        ELSE IF k = "event_date" THEN dv
        ELSE IF k = "event_time" THEN Str("5 PM")
        ELSE IF k = "created_at" THEN cv
        ELSE IF k = "updated_at" THEN DateTime("2025-05-01T09:30:00")
        ELSE IF k = "cover_image" THEN None
        ELSE Str("X")] :
        ks \in {{"title"} \cup o :
                 o \in SUBSET {"_id", "event_date", "event_time", "created_at",
                               "updated_at", "cover_image"}},
        dv \in {Date("2025-05-01"), DateTime("2025-05-01T09:30:00"),
                Str("2025-05-01")},
        cv \in {DateTime("2025-05-01T09:30:00"), Str("2025-05-01T09:30:00")}}

(***************************************************************************)
(* State.                                                                  *)
(***************************************************************************)
NoRequest ==
    [op |-> "none", status |-> 0, category |-> None, featured |-> None,
     filt |-> EmptyDict, events |-> <<>>, body |-> EmptyDict, id |-> None,
     errs |-> {}, failAt |-> NSamples + 1, gwFail |-> FALSE,
     seedFailed |-> FALSE, inserted |-> 0]

NoResponse == [status |-> 0, events |-> <<>>]
NoParams == [category |-> None, featured |-> None]

IdleConc ==
    /\ pc = [p \in Procs |-> "idle"]
    /\ seen = [p \in Procs |-> 0]
    /\ idx = [p \in Procs |-> 1]
    /\ req = [p \in Procs |-> NoParams]
    /\ resp = [p \in Procs |-> NoResponse]

IdleSer == sx = EmptyDict /\ sy = EmptyDict /\ sz = EmptyDict /\ spc = 0

concVars == <<pc, seen, idx, req, resp>>
serVars == <<sx, sy, sz, spc>>

(***************************************************************************)
(* Requests handled one at a time, with gateway failures.                  *)
(***************************************************************************)
Init ==
    /\ db \in {"up", "none"}
    /\ coll = <<>>
    /\ last = NoRequest
    /\ IdleConc
    /\ IdleSer

\* GET /api/events
ListEvents(category, featured, failAt, qFail) ==
    LET r == list_events(coll, db, category, featured, failAt, qFail) IN
    \* an insert can only fail where the loop runs
    /\ failAt \in 1..NSamples => (db = "up" /\ count_documents(coll) = 0)
    /\ coll' = r.coll
    /\ last' = [op |-> "list", status |-> r.status, category |-> category,
                featured |-> featured, filt |-> r.filt, events |-> r.events,
                body |-> EmptyDict, id |-> None, errs |-> {},
                failAt |-> failAt, gwFail |-> qFail,
                seedFailed |-> r.seedFailed,
                inserted |-> Len(r.coll) - Len(coll)]
    /\ UNCHANGED <<db, concVars, serVars>>

\* POST /api/events
CreateEvent(body, gwFail) ==
    LET r == create_event(coll, db, body, gwFail) IN
    /\ NumCreated(coll) < MaxCreates
    /\ coll' = r.coll
    /\ last' = [op |-> "create", status |-> r.status, category |-> None,
                featured |-> None, filt |-> EmptyDict, events |-> <<>>,
                body |-> body, id |-> r.id, errs |-> r.errs,
                failAt |-> NSamples + 1, gwFail |-> gwFail,
                seedFailed |-> FALSE,
                inserted |-> Len(r.coll) - Len(coll)]
    /\ UNCHANGED <<db, concVars, serVars>>

Next ==
    \/ \E c \in Categories, f \in Featureds, k \in FailPoints, q \in BOOLEAN :
          ListEvents(c, f, k, q)
    \/ \E b \in Bodies, g \in BOOLEAN : CreateEvent(b, g)

Spec == Init /\ [][Next]_vars

(***************************************************************************)
(* Concurrent List requests, no gateway failures: ensure_seed's count and  *)
(* each insert are separate gateway round trips.                           *)
(***************************************************************************)
InitConc ==
    /\ db = "up"
    /\ coll = <<>>
    /\ last = NoRequest
    /\ IdleConc
    /\ IdleSer

\* The request arrives.
Start(p, category, featured) ==
    /\ pc[p] = "idle"
    /\ req' = [req EXCEPT ![p] = [category |-> category, featured |-> featured]]
    /\ pc' = [pc EXCEPT ![p] = "count"]
    /\ UNCHANGED <<db, coll, last, seen, idx, resp, serVars>>

\* count = db["event"].count_documents({}); if count == 0: ...
SeedCount(p) ==
    /\ pc[p] = "count"
    /\ seen' = [seen EXCEPT ![p] = count_documents(coll)]
    /\ pc' = [pc EXCEPT ![p] = IF count_documents(coll) = 0 THEN "insert" ELSE "query"]
    /\ UNCHANGED <<db, coll, last, idx, req, resp, serVars>>

\* for ev in SAMPLE_EVENTS: create_document("event", ev)
SeedInsert(p) ==
    /\ pc[p] = "insert"
    /\ coll' = seed_step(coll, idx[p])
    /\ idx' = [idx EXCEPT ![p] = idx[p] + 1]
    /\ pc' = [pc EXCEPT ![p] = IF idx[p] + 1 > NSamples THEN "query" ELSE "insert"]
    /\ UNCHANGED <<db, last, seen, req, resp, serVars>>

\* docs = get_documents("event", filt); return {"events": [...]}
Query(p) ==
    /\ pc[p] = "query"
    /\ resp' = [resp EXCEPT ![p] =
                  [status |-> 200,
                   events |-> SerializeAll(get_documents(coll,
                                 BuildFilter(req[p].category, req[p].featured)))]]
    /\ pc' = [pc EXCEPT ![p] = "done"]
    /\ UNCHANGED <<db, coll, last, seen, idx, req, serVars>>

NextConc ==
    \/ \E p \in Procs, c \in {None, Str("Tech")} : Start(p, c, None)
    \/ \E p \in Procs : SeedCount(p)
    \/ \E p \in Procs : SeedInsert(p)
    \/ \E p \in Procs : Query(p)

SpecConc == InitConc /\ [][NextConc]_vars

(***************************************************************************)
(* serialize_event applied once and twice to a record.                     *)
(***************************************************************************)
InitSer ==
    /\ db = "up"
    /\ coll = <<>>
    /\ last = NoRequest
    /\ IdleConc
    /\ sx \in SerInputs
    /\ sy = EmptyDict
    /\ sz = EmptyDict
    /\ spc = 0

SerializeOnce ==
    /\ spc = 0
    /\ sy' = serialize_event(sx)
    /\ spc' = 1
    /\ UNCHANGED <<db, coll, last, concVars, sx, sz>>

SerializeTwice ==
    /\ spc = 1
    /\ sz' = serialize_event(sy)
    /\ spc' = 2
    /\ UNCHANGED <<db, coll, last, concVars, sx, sy>>

NextSer == SerializeOnce \/ SerializeTwice

SpecSer == InitSer /\ [][NextSer]_vars


(***************************************************************************)
(* Properties.                                                             *)
(***************************************************************************)
\* Positions of the stored documents whose field k equals v.
Where(k, v) == {i \in 1..Len(coll) : Has(coll[i], k) /\ coll[i][k] = v}

\* Identifiers (string form) of the stored documents at positions S.
IdsAt(S) == {PyStr(coll[i]["_id"]) : i \in S}

\* Identifiers carried by the events of the last List response.
EventIds == {last.events[i]["id"] : i \in 1..Len(last.events)}

ListOk == last.op = "list" /\ last.status = 200

\* C1: List with featured=false carries an is_featured = false clause and
\* returns only (with no category clause: exactly) the records whose
\* is_featured is false; List with featured omitted carries no is_featured
\* clause and, with no category clause, returns every record.
C1_FeaturedFalseIsAFilter ==
    /\ (last.op = "list" /\ last.featured = PyFalse) =>
          /\ Has(last.filt, "is_featured")
          /\ last.filt["is_featured"] = PyFalse
    /\ (last.op = "list" /\ last.featured = None) =>
          ~Has(last.filt, "is_featured")
    /\ (ListOk /\ last.featured = PyFalse) =>
          /\ \A i \in 1..Len(last.events) :
                last.events[i]["is_featured"] = PyFalse
          /\ EventIds \subseteq IdsAt(Where("is_featured", PyFalse))
          /\ ~Has(last.filt, "category") =>
                /\ EventIds = IdsAt(Where("is_featured", PyFalse))
                /\ Len(last.events) = Cardinality(Where("is_featured", PyFalse))
    /\ (ListOk /\ last.featured = None /\ ~Has(last.filt, "category")) =>
          /\ Len(last.events) = Len(coll)
          /\ EventIds = IdsAt(1..Len(coll))

\* A List with featured=false answered from a collection that holds both
\* featured and non-featured records.
C1_Witness ==
    /\ ListOk
    /\ last.featured = PyFalse
    /\ last.category = None
    /\ Where("is_featured", PyTrue) # {}
    /\ Len(last.events) >= 1
    /\ Len(last.events) < Len(coll)

\* C2 as stated: the filter has a category clause iff category is provided,
\* the empty string included, and only records of that category are returned.
C2_CategoryClauseIffProvided ==
    (ListOk /\ ~last.seedFailed) =>
        /\ Has(last.filt, "category") <=> last.category # None
        /\ last.category # None =>
              \A i \in 1..Len(last.events) :
                 last.events[i]["category"] = last.category

\* C2 amended: the filter has a category clause iff category is provided and
\* is not the empty string; the clause is category = that value and only
\* records of that category are returned (exactly those when there is no
\* is_featured clause); category="" is handled as category omitted.
C2_CategoryClauseIffNonEmpty ==
    /\ last.op = "list" =>
          /\ Has(last.filt, "category") <=>
                (last.category # None /\ last.category # Str(""))
          /\ Has(last.filt, "category") =>
                last.filt["category"] = last.category
    /\ (ListOk /\ last.category # None /\ last.category # Str("")) =>
          /\ \A i \in 1..Len(last.events) :
                last.events[i]["category"] = last.category
          /\ EventIds \subseteq IdsAt(Where("category", last.category))
          /\ last.featured = None =>
                EventIds = IdsAt(Where("category", last.category))
    /\ (ListOk /\ last.category \in {None, Str("")} /\ last.featured = None) =>
          Len(last.events) = Len(coll)

\* A List with category="" that returned records of a non-empty category
\* beside a record whose category is the empty string.
C2_Witness ==
    /\ ListOk
    /\ last.category = Str("")
    /\ last.featured = None
    /\ Where("category", Str("")) # {}
    /\ Where("category", Str("Tech")) # {}
    /\ Len(last.events) = Len(coll)

\* C3: a List call (whose first step is ensure_seed) made on a collection
\* that holds at least one record leaves the collection unchanged; so a
\* List that follows a List which inserted samples inserts nothing.
C3_SeedWritesOnlyWhenEmpty ==
    [][ /\ (last'.op = "list" /\ Len(coll) > 0) =>
              (coll' = coll /\ last'.inserted = 0)
        /\ (last.op = "list" /\ last.inserted > 0 /\ last'.op = "list") =>
              (coll' = coll /\ last'.inserted = 0) ]_vars

\* A List call that found the seeded samples in place and wrote nothing.
C3_Witness ==
    /\ last.op = "list"
    /\ last.inserted = 0
    /\ ~last.seedFailed
    /\ Len(coll) = NSamples
    /\ \A i \in 1..Len(coll) : IsSample(coll[i])

\* Text fields of the Event data model that the specification wants non-empty.
NonEmptyText == {"title", "description", "location", "category"}

\* Presence and type of every field, as the specification states them,
\* without the non-emptiness of the text fields.
WellTyped(b) ==
    /\ \A f \in NonEmptyText \cup {"event_time"} : Has(b, f) /\ b[f].t = "str"
    /\ Has(b, "event_date")
    /\ b["event_date"].t = "str"
    /\ b["event_date"].v \in IsoDates
    /\ Has(b, "tags") => b["tags"].t = "list"
    /\ Has(b, "is_featured") => b["is_featured"].t = "bool"
    /\ Has(b, "cover_image") => b["cover_image"].t \in {"str", "none"}

HasEmptyText(b) == \E f \in NonEmptyText : Has(b, f) /\ b[f] = Str("")

\* C4: a gateway failure in the query of List or in the insert of Create
\* (reached once the input has passed validation) is answered with HTTP 500.
C4_GatewayFailureIs500 ==
    /\ (db = "up" /\ last.op = "list" /\ last.gwFail) => last.status = 500
    /\ (db = "up" /\ last.op = "create" /\ last.gwFail
        /\ WellTyped(last.body) /\ ~HasEmptyText(last.body)) => last.status = 500

\* C5: Create with input that fails validation answers HTTP 400 with the
\* validation message and writes nothing.
C5_InvalidInputIs400 ==
    (db = "up" /\ last.op = "create" /\ ~WellTyped(last.body)) =>
        /\ last.status = 400
        /\ last.errs # {}
        /\ last.inserted = 0

Selected(filt) ==
    {i \in 1..Len(coll) : \A k \in DOMAIN filt : coll[i][k] = filt[k]}

\* C7: when a gateway call fails inside ensure_seed and the query of the
\* same List succeeds, the List answers 200 with what the collection holds
\* then (nothing, or the samples written before the failure).
C7_SeedFailureSwallowed ==
    (last.op = "list" /\ last.seedFailed /\ ~last.gwFail /\ db = "up") =>
        /\ last.status = 200
        /\ Len(last.events) = Cardinality(Selected(last.filt))
        /\ EventIds = IdsAt(Selected(last.filt))
        /\ last.failAt <= NSamples
        /\ last.failAt = 0 => last.inserted = 0
        /\ last.failAt > 0 => last.inserted \in {0, last.failAt - 1}

\* A List whose second sample insert failed returned the one sample stored.
C7_Witness ==
    /\ last.op = "list"
    /\ last.seedFailed
    /\ last.failAt = 2
    /\ last.status = 200
    /\ last.category = None
    /\ last.featured = None
    /\ Len(coll) = 1
    /\ Len(last.events) = 1

AllDone == \A p \in Procs : pc[p] = "done"

\* C8: when NProc concurrent List calls on an empty collection have all
\* completed without gateway failures, each was answered 200, the
\* collection holds between 3 and 3 * NProc records, every record is one of
\* the three samples under its own identifier, and every sample is present;
\* a call inserts only after it counted zero records.
C8_RaceOnlyDuplicates ==
    /\ AllDone =>
          /\ \A p \in Procs : resp[p].status = 200
          /\ Len(coll) >= NSamples
          /\ Len(coll) <= NSamples * NProc
          /\ \A i \in 1..Len(coll) : IsSample(coll[i])
          /\ \A s \in SampleSet : \E i \in 1..Len(coll) : Del(coll[i], "_id") = s
          /\ \A i, j \in 1..Len(coll) : coll[i]["_id"] = coll[j]["_id"] => i = j
    /\ \A p \in Procs : pc[p] = "done" => resp[p].status = 200
    /\ \A p \in Procs : pc[p] = "insert" => seen[p] = 0

\* All calls completed and the race duplicated the samples.
C8_Witness ==
    /\ AllDone
    /\ Len(coll) = NSamples * NProc
    /\ \E p \in Procs : Len(resp[p].events) < Len(coll)

\* C9: no step removes or changes a stored record; a Create answered 201
\* appends exactly one record, the validated input under an identifier no
\* stored record has, and returns that identifier; valid input is accepted
\* whatever the collection already holds.
C9_CollectionOnlyGrows ==
    [][ /\ Len(coll') >= Len(coll)
        /\ SubSeq(coll', 1, Len(coll)) = coll
        /\ (last'.op = "create" /\ last'.status = 201) =>
              /\ Len(coll') = Len(coll) + 1
              /\ Del(coll'[Len(coll')], "_id") = ModelDump(last'.body)
              /\ \A i \in 1..Len(coll) : coll[i]["_id"] # coll'[Len(coll')]["_id"]
              /\ last'.id = PyStr(coll'[Len(coll')]["_id"])
        /\ (last'.op = "create" /\ WellTyped(last'.body) /\ ~last'.gwFail
            /\ db = "up") =>
              last'.status = 201 ]_vars

\* Two Creates of the same input are stored as two records.
C9_Witness ==
    /\ last.op = "create"
    /\ last.status = 201
    /\ \E i, j \in 1..Len(coll) :
          /\ i < j
          /\ j = Len(coll)
          /\ Del(coll[i], "_id") = Del(coll[j], "_id")
          /\ coll[i]["_id"] # coll[j]["_id"]

\* C10: the second application of serialize_event leaves id, date and time
\* as the first produced them; the output never has the key _id and has the
\* identifier's string form under id; every other key of the input is kept,
\* whatever optional keys are missing and whatever form the date has.
C10_SerializeIdempotent ==
    /\ spc >= 1 =>
          /\ ~Has(sy, "_id")
          /\ Has(sx, "_id") =>
                (Has(sy, "id") /\ sy["id"].t = "str" /\ sy["id"].v = sx["_id"].v)
          /\ (DOMAIN sx) \ {"_id"} \subseteq DOMAIN sy
          /\ Has(sx, "event_date") =>
                (Has(sy, "date") /\ sy["date"].t = "str"
                 /\ sy["date"].v = sx["event_date"].v)
          /\ Has(sx, "event_time") =>
                (Has(sy, "time") /\ sy["time"] = sx["event_time"])
    /\ spc = 2 =>
          /\ ~Has(sz, "_id")
          /\ \A k \in {"id", "date", "time"} :
                /\ Has(sz, k) <=> Has(sy, k)
                /\ Has(sy, k) => sz[k] = sy[k]

\* Both applications were made on a stored record whose date is already a
\* string and which has no cover_image.
C10_Witness ==
    /\ spc = 2
    /\ Has(sx, "_id")
    /\ Has(sx, "event_date")
    /\ sx["event_date"].t = "str"
    /\ ~Has(sx, "cover_image")
    /\ Has(sz, "id")

====
